---- MODULE Spec2Model ----
(***************************************************************************)
(* Model of streamlit_food_calorie_estimator.py: the "Estimate Calories"   *)
(* handler, image_to_base64 and the retry loop of call_gemini_api.         *)
(*                                                                         *)
(* Text is modelled after lexing: a JSON document is a sequence of tokens, *)
(* and the content of a JSON string is itself a sequence of tokens, so the *)
(* text payload of the envelope can be decoded a second time (json.loads). *)
(* Numbers are integers.                                                   *)
(***************************************************************************)
EXTENDS Integers, Sequences, FiniteSets, TLC

(* ---------------------------------------------------------------------- *)
(* Tokens of a document                                                    *)
(* ---------------------------------------------------------------------- *)
P(c) == [k |-> "p", c |-> c]
W(c) == [k |-> "w", c |-> c]
Lit(c) == [k |-> "lit", c |-> c]
Num(n) == [k |-> "num", n |-> n]
S(content) == [k |-> "str", s |-> content]
Txt(word) == << W(word) >>
IsP(tok, c) == tok.k = "p" /\ tok.c = c

(* ---------------------------------------------------------------------- *)
(* Python values produced by the JSON decoder                              *)
(* ---------------------------------------------------------------------- *)
JNull == [t |-> "null"]
JBool(b) == [t |-> "bool", b |-> b]
JNum(n) == [t |-> "num", n |-> n]
JStr(s) == [t |-> "str", s |-> s]
JArr(items) == [t |-> "arr", items |-> items]
JObj(members) == [t |-> "obj", members |-> members]
Unset == [t |-> "unset"]

HasKey(members, key) == \E m \in 1..Len(members) : members[m].key = key
KeyIndex(members, key) == CHOOSE m \in 1..Len(members) : members[m].key = key
DictGet(members, key) == members[KeyIndex(members, key)].val
\* dict[key] = val : a repeated key keeps its position and takes the last value
DictSet(members, key, val) ==
    IF HasKey(members, key)
    THEN [members EXCEPT ![KeyIndex(members, key)] = [key |-> key, val |-> val]]
    ELSE Append(members, [key |-> key, val |-> val])

(* ---------------------------------------------------------------------- *)
(* json.loads / response.json(): recursive descent over the tokens         *)
(* ---------------------------------------------------------------------- *)
ParseFail == [ok |-> FALSE, val |-> JNull, next |-> 0]
ParseOk(val, next) == [ok |-> TRUE, val |-> val, next |-> next]

RECURSIVE ParseValue(_, _), ParseElems(_, _, _), ParseMembers(_, _, _)
ParseValue(toks, at) ==
    IF at > Len(toks) THEN ParseFail
    ELSE LET tok == toks[at] IN
         CASE tok.k = "num" -> ParseOk(JNum(tok.n), at + 1)
           [] tok.k = "str" -> ParseOk(JStr(tok.s), at + 1)
           [] tok.k = "lit" ->
                 IF tok.c = "null" THEN ParseOk(JNull, at + 1)
                 ELSE IF tok.c = "true" THEN ParseOk(JBool(TRUE), at + 1)
                 ELSE IF tok.c = "false" THEN ParseOk(JBool(FALSE), at + 1)
                 ELSE ParseFail
           [] tok.k = "w" -> ParseFail
           [] tok.k = "p" ->
                 IF tok.c = "["
                 THEN IF at + 1 <= Len(toks) /\ IsP(toks[at + 1], "]")
                      THEN ParseOk(JArr(<<>>), at + 2)
                      ELSE ParseElems(toks, at + 1, <<>>)
                 ELSE IF tok.c = "{"
                 THEN IF at + 1 <= Len(toks) /\ IsP(toks[at + 1], "}")
                      THEN ParseOk(JObj(<<>>), at + 2)
                      ELSE ParseMembers(toks, at + 1, <<>>)
                 ELSE ParseFail

\* variant: elements collected in reverse order
ParseElemsReversed(toks, at, acc) ==
    LET r == ParseValue(toks, at) IN
    IF ~r.ok \/ r.next > Len(toks) THEN ParseFail
    ELSE IF IsP(toks[r.next], ",") THEN ParseElems(toks, r.next + 1, << r.val >> \o acc)
    ELSE IF IsP(toks[r.next], "]") THEN ParseOk(JArr(<< r.val >> \o acc), r.next + 1)
    ELSE ParseFail

ParseElems(toks, at, acc) ==
    LET r == ParseValue(toks, at) IN
    IF ~r.ok \/ r.next > Len(toks) THEN ParseFail
    ELSE IF IsP(toks[r.next], ",") THEN ParseElems(toks, r.next + 1, Append(acc, r.val))
    ELSE IF IsP(toks[r.next], "]") THEN ParseOk(JArr(Append(acc, r.val)), r.next + 1)
    ELSE ParseFail

ParseMembers(toks, at, acc) ==
    IF at + 1 > Len(toks) THEN ParseFail
    ELSE IF toks[at].k # "str" \/ ~IsP(toks[at + 1], ":") THEN ParseFail
    ELSE LET r == ParseValue(toks, at + 2) IN
         IF ~r.ok \/ r.next > Len(toks) THEN ParseFail
         ELSE IF IsP(toks[r.next], ",")
              THEN ParseMembers(toks, r.next + 1, DictSet(acc, toks[at].s, r.val))
         ELSE IF IsP(toks[r.next], "}")
              THEN ParseOk(JObj(DictSet(acc, toks[at].s, r.val)), r.next + 1)
         ELSE ParseFail

\* the whole document must be one value; anything else is a JSONDecodeError
json_loads(toks) ==
    LET r == ParseValue(toks, 1) IN
    IF r.ok /\ r.next = Len(toks) + 1
    THEN [exc |-> "none", val |-> r.val]
    ELSE [exc |-> "JSONDecodeError", val |-> JNull]

(* ---------------------------------------------------------------------- *)
(* Python subscription value[key]; key is a string or the integer 0        *)
(* ---------------------------------------------------------------------- *)
Raised(e) == [exc |-> e, val |-> JNull]
Got(v) == [exc |-> "none", val |-> v]

SubscriptStr(v, key) ==
    CASE v.t = "obj" -> IF HasKey(v.members, Txt(key)) THEN Got(DictGet(v.members, Txt(key)))
                        ELSE Raised("KeyError")
      [] OTHER -> Raised("TypeError")

SubscriptZero(v) ==
    CASE v.t = "arr" -> IF Len(v.items) > 0 THEN Got(v.items[1]) ELSE Raised("IndexError")
      [] v.t = "str" -> IF Len(v.s) > 0 THEN Got(JStr(<< v.s[1] >>)) ELSE Raised("IndexError")
      [] v.t = "obj" -> Raised("KeyError")
      [] OTHER -> Raised("TypeError")

SubCandidates(v) == SubscriptStr(v, "candidates")
SubContent(v) == SubscriptStr(v, "content")
SubParts(v) == SubscriptStr(v, "parts")
SubText(v) == SubscriptStr(v, "text")

\* result["candidates"][0]["content"]["parts"][0]["text"], left to right;
\* the first subscription that raises ends the evaluation
ExtractText(result) ==
    LET candidates == SubCandidates(result) IN
    IF candidates.exc # "none" THEN candidates ELSE
    LET candidate == SubscriptZero(candidates.val) IN
    IF candidate.exc # "none" THEN candidate ELSE
    LET content == SubContent(candidate.val) IN
    IF content.exc # "none" THEN content ELSE
    LET parts == SubParts(content.val) IN
    IF parts.exc # "none" THEN parts ELSE
    LET part == SubscriptZero(parts.val) IN
    IF part.exc # "none" THEN part ELSE SubText(part.val)

\* json.loads(json_string): the argument must be a str
LoadsText(v) == IF v.t = "str" THEN json_loads(v.s) ELSE Raised("TypeError")

(* ---------------------------------------------------------------------- *)
(* The caller's use of the results (lines 119-128)                         *)
(* ---------------------------------------------------------------------- *)
\* variant: the results are rendered without the `if results:` test
TruthyAlways(v) == TRUE

\* `if results:` - Python truth value of a decoded JSON value
Truthy(v) ==
    CASE v.t = "null" -> FALSE
      [] v.t = "bool" -> v.b
      [] v.t = "num" -> v.n # 0
      [] v.t = "str" -> Len(v.s) > 0
      [] v.t = "arr" -> Len(v.items) > 0
      [] v.t = "obj" -> Len(v.members) > 0
      [] OTHER -> FALSE

\* `for item in results`: a list yields its items, a dict its keys, a str its characters
Iterate(v) ==
    CASE v.t = "arr" -> [exc |-> "none", items |-> v.items]
      [] v.t = "obj" -> [exc |-> "none",
                         items |-> [m \in 1..Len(v.members) |-> JStr(v.members[m].key)]]
      [] v.t = "str" -> [exc |-> "none", items |-> [m \in 1..Len(v.s) |-> JStr(<< v.s[m] >>)]]
      [] OTHER -> [exc |-> "TypeError", items |-> <<>>]

\* variant: item.get("calories", 1)
GetCaloriesDefaultOne(item) ==
    IF item.t # "obj" THEN Raised("AttributeError")
    ELSE IF HasKey(item.members, Txt("calories"))
         THEN Got(DictGet(item.members, Txt("calories")))
         ELSE Got(JNum(1))

\* item.get("calories", 0)
GetCalories(item) ==
    IF item.t # "obj" THEN Raised("AttributeError")
    ELSE IF HasKey(item.members, Txt("calories"))
         THEN Got(DictGet(item.members, Txt("calories")))
         ELSE Got(JNum(0))

\* acc + value inside sum(): numbers (and bools) add, anything else raises
Plus(acc, v) ==
    CASE v.t = "num" -> Got(JNum(acc + v.n))
      [] v.t = "bool" -> Got(JNum(acc + (IF v.b THEN 1 ELSE 0)))
      [] OTHER -> Raised("TypeError")

RECURSIVE SumFrom(_, _, _)
SumFrom(items, at, acc) ==
    IF at > Len(items) THEN Got(JNum(acc))
    ELSE LET c == GetCalories(items[at]) IN
         IF c.exc # "none" THEN c
         ELSE LET a == Plus(acc, c.val) IN
              IF a.exc # "none" THEN a ELSE SumFrom(items, at + 1, a.val.n)

\* sum(item.get("calories", 0) for item in results)
total_calories(results) ==
    LET it == Iterate(results) IN
    IF it.exc # "none" THEN Raised(it.exc) ELSE SumFrom(it.items, 1, 0)

\* st.table(results) is certain to render a list of dicts; for any other
\* value the table widget may render it or reject it
IsListOfDicts(v) == v.t = "arr" /\ \A m \in 1..Len(v.items) : v.items[m].t = "obj"

(* ---------------------------------------------------------------------- *)
(* image_to_base64 (lines 17-21)                                           *)
(* ---------------------------------------------------------------------- *)
\* modes the JPEG writer accepts; saving any other mode raises OSError
JpegModes == {"L", "RGB", "CMYK"}

\* image.save(buffered, format="JPEG"): start marker, number of components,
\* the samples after (lossy) quantisation, end marker
Components(mode) == IF mode = "L" THEN 1 ELSE IF mode = "RGB" THEN 3 ELSE 4
Quantise(sample) == (sample \div 8) * 8
JpegBytes(image) ==
    << 255, 216, Components(image.mode) >>
        \o [m \in 1..Len(image.pixels) |-> Quantise(image.pixels[m])]
        \o << 255, 217 >>

\* base64.b64encode: 3 bytes -> 4 sextets, "=" (written 64) pads the last group
RECURSIVE b64encode(_)
b64encode(bytes) ==
    IF Len(bytes) = 0 THEN <<>>
    ELSE IF Len(bytes) = 1
    THEN << bytes[1] \div 4, (bytes[1] % 4) * 16, 64, 64 >>
    ELSE IF Len(bytes) = 2
    THEN << bytes[1] \div 4, (bytes[1] % 4) * 16 + bytes[2] \div 16, (bytes[2] % 16) * 4, 64 >>
    ELSE << bytes[1] \div 4, (bytes[1] % 4) * 16 + bytes[2] \div 16,
            (bytes[2] % 16) * 4 + bytes[3] \div 64, bytes[3] % 64 >>
         \o b64encode(SubSeq(bytes, 4, Len(bytes)))

image_to_base64(image) ==
    IF image.mode \in JpegModes
    THEN [exc |-> "none", text |-> b64encode(JpegBytes(image))]
    ELSE [exc |-> "OSError", text |-> <<>>]

(* ---------------------------------------------------------------------- *)
(* Inputs: uploaded images, HTTP statuses, response bodies, text payloads  *)
(* ---------------------------------------------------------------------- *)
Images ==
    { [mode |-> "RGB", pixels |-> << 10, 200, 33 >>],
      [mode |-> "L", pixels |-> << 7 >>],
      [mode |-> "RGBA", pixels |-> << 1, 2, 3, 255 >>] }

Member(key, valtoks) == << S(Txt(key)), P(":") >> \o valtoks
Obj1(key, valtoks) == << P("{") >> \o Member(key, valtoks) \o << P("}") >>
Arr1(valtoks) == << P("[") >> \o valtoks \o << P("]") >>
Food(name, caltoks) ==
    << P("{") >> \o Member("food_item", << S(Txt(name)) >>) \o << P(",") >>
                 \o Member("calories", caltoks) \o << P("}") >>
FoodNoCal(name) == Obj1("food_item", << S(Txt(name)) >>)

AppleText == Arr1(Food("Apple", << Num(95) >>))
MissingCalText == Arr1(Food("A", << Num(10) >>) \o << P(",") >> \o FoodNoCal("B"))
DuplicateText == Arr1(Food("A", << Num(10) >>) \o << P(",") >> \o Food("A", << Num(10) >>))
TwoItemText == Arr1(Food("Apple", << Num(95) >>) \o << P(",") >> \o Food("Banana", << Num(105) >>))

\* payloads that decode to an array of {food_item, calories} objects
ValidTexts == { AppleText, DuplicateText, TwoItemText }

\* payloads that are valid JSON of another shape
OddTexts ==
    { MissingCalText,
      << P("["), P("]") >>,
      << Lit("null") >>,
      << Num(5) >>,
      << Num(0) >>,
      Food("A", << Num(10) >>),
      Arr1(<< Num(1) >>),
      Arr1(Food("A", << S(Txt("x")) >>)),
      Arr1(Food("A", << Lit("null") >>)),
      Arr1(Obj1("food_item", << Num(5) >>)),
      << S(Txt("Apple")) >> }

\* payloads that are not JSON
MalformedTexts ==
    { <<>>,
      Txt("Apple"),
      << P("["), P("{"), S(Txt("food_item")), P(":") >>,
      Arr1(Food("A", << Num(10) >>) \o << P(",") >>),
      AppleText \o Txt("kcal") }

Texts == ValidTexts \cup OddTexts \cup MalformedTexts

\* {"candidates":[{"content":{"parts":[{"text": <text>}]}}]}
Envelope(textToks) ==
    Obj1("candidates", Arr1(Obj1("content", Obj1("parts", Arr1(Obj1("text", textToks))))))

WellFormedBodies == { Envelope(<< S(text) >>) : text \in Texts }

\* JSON bodies without a usable candidates[0].content.parts[0].text
BrokenEnvelopes ==
    { << P("{"), P("}") >>,
      Obj1("error", << S(Txt("quota")) >>),
      Obj1("candidates", << P("["), P("]") >>),
      Obj1("candidates", Arr1(<< P("{"), P("}") >>)),
      Obj1("candidates", Arr1(Obj1("content", << P("{"), P("}") >>))),
      Obj1("candidates", Arr1(Obj1("content", Obj1("parts", << P("["), P("]") >>)))),
      Obj1("candidates", Arr1(Obj1("content", Obj1("parts", Arr1(<< P("{"), P("}") >>))))),
      Obj1("candidates", << P("{"), P("}") >>),
      Obj1("candidates", << S(Txt("none")) >>),
      << P("["), P("]") >>,
      << Lit("null") >>,
      Envelope(<< Num(5) >>),
      Envelope(<< Lit("null") >>) }

\* bodies that are not JSON at all
NonJsonBodies == { <<>>, Txt("html"), << P("{"), S(Txt("candidates")), P(":") >> }

Bodies == WellFormedBodies \cup BrokenEnvelopes \cup NonJsonBodies

\* bodies sent along with a 4xx/5xx status
ErrorBodies == { Obj1("error", << S(Txt("quota")) >>), Txt("html"), Envelope(<< S(AppleText) >>) }

Statuses == { 101, 200, 204, 304, 400, 403, 500 }

(* ---------------------------------------------------------------------- *)
(* State                                                                   *)
(* ---------------------------------------------------------------------- *)
VARIABLES
    pc,            \* "start", "uploaded", "loop", "returned", "done", "crashed"
    calls,         \* button presses so far
    image,         \* the uploaded image
    base64_image,  \* line 106
    retries,       \* parameter of call_gemini_api
    i,             \* loop index of `for i in range(retries)`
    delay,         \* line 60
    statuses,      \* status of every request sent by this call (0: no response)
    lastBody,      \* body of the last response
    sleeps,        \* arguments of time.sleep, in order
    notes,         \* st.warning / st.error emitted by call_gemini_api, in order
    results,       \* value returned by call_gemini_api (line 117)
    exc,           \* exception that left the handler, "none" otherwise
    ui,            \* what lines 120-128 put on the page, in order
    total,         \* total_calories (line 127)
    prev           \* how the previous direct call of call_gemini_api went

vars == << pc, calls, image, base64_image, retries, i, delay, statuses, lastBody,
           sleeps, notes, results, exc, ui, total, prev >>

\* bound on the number of button presses explored
MaxCalls == 2

\* retries=5 (line 23)
DefaultRetries == 5

\* largest retries argument explored when call_gemini_api is called directly
MaxRetriesArg == 5

\* variant: the delay is kept from the previous call instead of being set at entry
EntryDelayStale == delay

\* delay = 1 (line 60)
EntryDelay == 1

\* no call of call_gemini_api has been made yet
NoCall ==
    [ retries |-> 0, statuses |-> <<>>, lastBody |-> <<>>, sleeps |-> <<>>, notes |-> <<>>,
      results |-> Unset, exc |-> "none", delay |-> 1, pc |-> "caller" ]

NoImage == [mode |-> "none", pixels |-> <<>>]

Warning(d, attempt, of) ==
    [kind |-> "warning", msg |-> "retrying", delay |-> d, attempt |-> attempt, of |-> of, exc |-> "none"]
Error(msg, e) ==
    [kind |-> "error", msg |-> msg, delay |-> 0, attempt |-> 0, of |-> 0, exc |-> e]

Init ==
    /\ pc = "start"
    /\ calls = 0
    /\ image = NoImage
    /\ base64_image = <<>>
    /\ retries = DefaultRetries
    /\ i = 0
    /\ delay = 1
    /\ statuses = <<>>
    /\ lastBody = <<>>
    /\ sleeps = <<>>
    /\ notes = <<>>
    /\ results = Unset
    /\ exc = "none"
    /\ ui = <<>>
    /\ total = Unset
    /\ prev = NoCall

(* ---------------------------------------------------------------------- *)
(* One pass of the loop body (lines 62-77) as a function of the response   *)
(* ---------------------------------------------------------------------- *)
\* variant: only server errors raise
RaisesHTTPError5xx(status) == status >= 500 /\ status < 600

\* response.raise_for_status() raises HTTPError for 4xx and 5xx
RaisesHTTPError(status) == status >= 400 /\ status < 600

\* lines 65-67
DecodeBody(body) ==
    LET result == json_loads(body) IN
    IF result.exc # "none" THEN result ELSE
    LET json_string == ExtractText(result.val) IN
    IF json_string.exc # "none" THEN json_string ELSE LoadsText(json_string.val)

\* variant: the except clause without json.JSONDecodeError
CaughtNoDecode == { "RequestException", "KeyError" }

\* exceptions named by the second except clause (line 75)
Caught == { "RequestException", "JSONDecodeError", "KeyError" }

\* variant: 401 instead of 403
IsForbidden401(status) == status = 401

\* the status that is reported and not retried (line 69)
IsForbidden(status) == status = 403

\* variant: a transport failure is retried like an HTTP error
ClassifyRetryTransport(failed, status, body) ==
    IF failed THEN [class |-> "retry", exc |-> "RequestException", val |-> JNull]
    ELSE IF RaisesHTTPError(status)
    THEN IF IsForbidden(status)
         THEN [class |-> "forbidden", exc |-> "HTTPError", val |-> JNull]
         ELSE [class |-> "retry", exc |-> "HTTPError", val |-> JNull]
    ELSE LET r == DecodeBody(body) IN
         IF r.exc = "none" THEN [class |-> "return", exc |-> "none", val |-> r.val]
         ELSE IF r.exc \in Caught THEN [class |-> "fatal", exc |-> r.exc, val |-> JNull]
         ELSE [class |-> "escape", exc |-> r.exc, val |-> JNull]

\* what one pass does: "return" a value, "forbidden", "retry", "fatal" or "escape"
Classify(failed, status, body) ==
    IF failed THEN [class |-> "fatal", exc |-> "RequestException", val |-> JNull]
    ELSE IF RaisesHTTPError(status)
    THEN IF IsForbidden(status)
         THEN [class |-> "forbidden", exc |-> "HTTPError", val |-> JNull]
         ELSE [class |-> "retry", exc |-> "HTTPError", val |-> JNull]
    ELSE LET r == DecodeBody(body) IN
         IF r.exc = "none" THEN [class |-> "return", exc |-> "none", val |-> r.val]
         ELSE IF r.exc \in Caught THEN [class |-> "fatal", exc |-> r.exc, val |-> JNull]
         ELSE [class |-> "escape", exc |-> r.exc, val |-> JNull]

\* variant: linear backoff
NextDelayLinear(d) == d + 1

\* variant: factor 3
NextDelayTriple(d) == d * 3

\* variant: the loop body runs once before the range is tested
LoopContinuesAtLeastOnce(idx, n) == idx < n \/ idx = 0

\* for i in range(retries) (line 61): another pass is made while i < retries
LoopContinues(idx, n) == idx < n

\* delay *= 2 (line 74)
NextDelay(d) == d * 2

(* ---------------------------------------------------------------------- *)
(* Actions                                                                 *)
(* ---------------------------------------------------------------------- *)
\* lines 93-101: the user picks a file
Upload(img) ==
    /\ pc = "start"
    /\ pc' = "uploaded"
    /\ image' = img
    /\ UNCHANGED << calls, base64_image, retries, i, delay, statuses, lastBody,
                    sleeps, notes, results, exc, ui, total, prev >>

\* lines 103-106 and 60: the button starts a fresh run of the script
Click ==
    /\ pc \in { "uploaded", "done", "crashed" }
    /\ calls < MaxCalls
    /\ calls' = calls + 1
    /\ LET enc == image_to_base64(image) IN
         /\ base64_image' = enc.text
         /\ exc' = enc.exc
         /\ pc' = IF enc.exc = "none" THEN "loop" ELSE "crashed"
    /\ retries' = DefaultRetries
    /\ i' = 0
    /\ delay' = EntryDelay
    /\ statuses' = <<>>
    /\ lastBody' = <<>>
    /\ sleeps' = <<>>
    /\ notes' = <<>>
    /\ results' = Unset
    /\ ui' = <<>>
    /\ total' = Unset
    /\ UNCHANGED << image, prev >>

\* lines 61-77: one pass of the loop
Attempt(failed, status, body) ==
    /\ pc = "loop"
    /\ LoopContinues(i, retries)
    /\ statuses' = Append(statuses, IF failed THEN 0 ELSE status)
    /\ lastBody' = IF failed THEN <<>> ELSE body
    /\ LET c == Classify(failed, status, body) IN
         CASE c.class = "return" ->
                /\ results' = c.val
                /\ pc' = "returned"
                /\ UNCHANGED << i, delay, sleeps, notes, exc >>
           [] c.class = "forbidden" ->
                /\ notes' = Append(notes, Error("forbidden", c.exc))
                /\ results' = JNull
                /\ pc' = "returned"
                /\ UNCHANGED << i, delay, sleeps, exc >>
           [] c.class = "retry" ->
                /\ notes' = Append(notes, Warning(delay, i + 1, retries))
                /\ sleeps' = Append(sleeps, delay)
                /\ delay' = NextDelay(delay)
                /\ i' = i + 1
                /\ UNCHANGED << pc, results, exc >>
           [] c.class = "fatal" ->
                /\ notes' = Append(notes, Error("api_error", c.exc))
                /\ results' = JNull
                /\ pc' = "returned"
                /\ UNCHANGED << i, delay, sleeps, exc >>
           [] c.class = "escape" ->
                /\ exc' = c.exc
                /\ pc' = "crashed"
                /\ UNCHANGED << i, delay, sleeps, notes, results >>
    /\ UNCHANGED << calls, image, base64_image, retries, ui, total, prev >>

\* lines 79-80: the loop ran out
Exhausted ==
    /\ pc = "loop"
    /\ ~LoopContinues(i, retries)
    /\ notes' = Append(notes, Error("max_retries", "none"))
    /\ results' = JNull
    /\ pc' = "returned"
    /\ UNCHANGED << calls, image, base64_image, retries, i, delay, statuses, lastBody,
                    sleeps, exc, ui, total, prev >>

\* lines 119-128: the caller renders the results
Render(tableRejects) ==
    /\ pc = "returned"
    /\ IF ~Truthy(results)
       THEN /\ pc' = "done"
            /\ UNCHANGED << ui, total, exc >>
       ELSE IF tableRejects /\ ~IsListOfDicts(results)
       THEN /\ ui' = ui \o << "success", "subheader" >>
            /\ exc' = "TableError"
            /\ pc' = "crashed"
            /\ UNCHANGED total
       ELSE LET t == total_calories(results) IN
            IF t.exc = "none"
            THEN /\ ui' = ui \o << "success", "subheader", "table", "header" >>
                 /\ total' = t.val
                 /\ pc' = "done"
                 /\ UNCHANGED exc
            ELSE /\ ui' = ui \o << "success", "subheader", "table" >>
                 /\ exc' = t.exc
                 /\ pc' = "crashed"
                 /\ UNCHANGED total
    /\ UNCHANGED << calls, image, base64_image, retries, i, delay, statuses, lastBody,
                    sleeps, notes, results, prev >>

Next ==
    \/ \E img \in Images : Upload(img)
    \/ Click
    \/ Attempt(TRUE, 0, <<>>)
    \/ \E status \in { s \in Statuses : ~RaisesHTTPError(s) }, body \in Bodies :
            Attempt(FALSE, status, body)
    \/ \E status \in { s \in Statuses : RaisesHTTPError(s) }, body \in ErrorBodies :
            Attempt(FALSE, status, body)
    \/ Exhausted
    \/ \E tableRejects \in BOOLEAN : Render(tableRejects)

Spec == Init /\ [][Next]_vars

(* ---------------------------------------------------------------------- *)
(* call_gemini_api called directly, several times in a row, with any       *)
(* retries argument                                                        *)
(* ---------------------------------------------------------------------- *)
InitFn ==
    /\ pc = "caller"
    /\ calls = 0
    /\ image = NoImage
    /\ base64_image = <<>>
    /\ retries = DefaultRetries
    /\ i = 0
    /\ delay = 1
    /\ statuses = <<>>
    /\ lastBody = <<>>
    /\ sleeps = <<>>
    /\ notes = <<>>
    /\ results = Unset
    /\ exc = "none"
    /\ ui = <<>>
    /\ total = Unset
    /\ prev = NoCall

\* lines 23 and 60: entry of call_gemini_api(prompt, base64_image_data, r);
\* the outcome of the call before it is kept in prev
CallFn(r) ==
    /\ pc \in { "caller", "returned", "crashed" }
    /\ calls < MaxCalls
    /\ calls' = calls + 1
    /\ prev' = [ retries |-> retries, statuses |-> statuses, lastBody |-> lastBody,
                 sleeps |-> sleeps, notes |-> notes, results |-> results, exc |-> exc,
                 delay |-> delay, pc |-> pc ]
    /\ retries' = r
    /\ i' = 0
    /\ delay' = EntryDelay
    /\ statuses' = <<>>
    /\ lastBody' = <<>>
    /\ sleeps' = <<>>
    /\ notes' = <<>>
    /\ results' = Unset
    /\ exc' = "none"
    /\ pc' = "loop"
    /\ UNCHANGED << image, base64_image, ui, total >>

\* responses explored for direct calls
FnBodies ==
    { Envelope(<< S(AppleText) >>),
      Envelope(<< S(Txt("Apple")) >>),
      Obj1("candidates", << P("["), P("]") >>) }
FnOkStatuses == { 200, 304 }
FnErrorStatuses == { 403, 500 }

NextFn ==
    \/ \E r \in 0..MaxRetriesArg : CallFn(r)
    \/ Attempt(TRUE, 0, <<>>)
    \/ \E status \in FnOkStatuses, body \in FnBodies : Attempt(FALSE, status, body)
    \/ \E status \in FnErrorStatuses : Attempt(FALSE, status, Txt("html"))
    \/ Exhausted

SpecFn == InitFn /\ [][NextFn]_vars

(* ---------------------------------------------------------------------- *)
(* Properties                                                              *)
(* ---------------------------------------------------------------------- *)
RECURSIVE SumSeq(_)
SumSeq(seq) == IF Len(seq) = 0 THEN 0 ELSE seq[Len(seq)] + SumSeq(SubSeq(seq, 1, Len(seq) - 1))

RECURSIVE Pow2(_)
Pow2(n) == IF n = 0 THEN 1 ELSE 2 * Pow2(n - 1)

Requests == Len(statuses)
LastStatus == statuses[Len(statuses)]
Is2xx(status) == status >= 200 /\ status < 300
LastNote == notes[Len(notes)]
Returned == pc \in { "returned", "done" }
NoErrorNote == \A n \in 1..Len(notes) : notes[n].kind # "error"

FoodVal(name, cal) ==
    JObj(<< [key |-> Txt("food_item"), val |-> JStr(Txt(name))],
            [key |-> Txt("calories"), val |-> JNum(cal)] >>)

\* C1: a 403 on attempt k (after k-1 retried attempts) ends the call at once:
\* permission error reported, no result, exactly k requests, k-1 sleeps, and
\* no request after it.
C1_ForbiddenEndsCall ==
    \A k \in 1..Requests :
        statuses[k] = 403 =>
            /\ k = Requests
            /\ k <= retries
            /\ Returned
            /\ results = JNull
            /\ exc = "none"
            /\ Len(sleeps) = k - 1
            /\ Len(notes) = k
            /\ LastNote = Error("forbidden", "HTTPError")

C1_Witness ==
    /\ pc = "returned"
    /\ Requests = DefaultRetries
    /\ LastStatus = 403
    /\ statuses[1] = 500

\* C2: five attempts that all end in HTTP 500 give exactly five requests,
\* sleeps 1, 2, 4, 8, 16 (31 in total), then "maximum retries exceeded" and
\* no result.
C2_AllFail ==
    statuses = << 500, 500, 500, 500, 500 >> =>
        /\ sleeps = << 1, 2, 4, 8, 16 >>
        /\ SumSeq(sleeps) = 31
        /\ pc # "crashed"
        /\ Returned =>
            /\ results = JNull
            /\ LastNote = Error("max_retries", "none")
            /\ Len(notes) = 6

C2_Witness == pc = "returned" /\ statuses = << 500, 500, 500, 500, 500 >>

\* C3: k < max_attempts retried failures followed by a 2xx response with a
\* valid body return the parsed array after a total sleep of 2^k - 1 (15 for
\* k = 4) and never report "maximum retries exceeded".
C3_SuccessAfterRetries ==
    ( /\ Requests >= 1
      /\ Is2xx(LastStatus)
      /\ lastBody \in { Envelope(<< S(text) >>) : text \in ValidTexts } ) =>
        /\ Requests <= retries
        /\ Returned
        /\ results.t = "arr"
        /\ Len(results.items) > 0
        /\ SumSeq(sleeps) = Pow2(Requests - 1) - 1
        /\ Requests = 5 => sleeps = << 1, 2, 4, 8 >>
        /\ NoErrorNote

C3_Witness ==
    /\ pc = "returned"
    /\ statuses = << 500, 500, 500, 500, 200 >>
    /\ lastBody = Envelope(<< S(AppleText) >>)
    /\ SumSeq(sleeps) = 15

\* C4: a 2xx response whose text payload is a JSON array of {food_item,
\* calories} objects returns exactly that sequence (same entries, same
\* order, duplicates kept), with no further request, no sleep after it and
\* no error; for the Apple body the result is [{Apple, 95}] and the total 95.
C4_ReturnsParsedSequence ==
    ( Requests >= 1 /\ Is2xx(LastStatus) ) =>
        /\ lastBody = Envelope(<< S(AppleText) >>) =>
              /\ results = JArr(<< FoodVal("Apple", 95) >>)
              /\ pc = "done" => total = JNum(95)
        /\ lastBody = Envelope(<< S(TwoItemText) >>) =>
              results = JArr(<< FoodVal("Apple", 95), FoodVal("Banana", 105) >>)
        /\ lastBody = Envelope(<< S(DuplicateText) >>) =>
              results = JArr(<< FoodVal("A", 10), FoodVal("A", 10) >>)
        /\ lastBody \in { Envelope(<< S(text) >>) : text \in ValidTexts } =>
              /\ Returned
              /\ Len(sleeps) = Requests - 1
              /\ NoErrorNote
              /\ exc = "none"

C4_Witness ==
    /\ pc = "done"
    /\ LastStatus = 200
    /\ lastBody = Envelope(<< S(TwoItemText) >>)
    /\ "table" \in { ui[n] : n \in 1..Len(ui) }

\* bodies that lack a part of candidates[0].content.parts[0].text
EnvelopesLackingPart ==
    { << P("{"), P("}") >>,
      Obj1("candidates", << P("["), P("]") >>),
      Obj1("candidates", Arr1(<< P("{"), P("}") >>)),
      Obj1("candidates", Arr1(Obj1("content", << P("{"), P("}") >>))),
      Obj1("candidates", Arr1(Obj1("content", Obj1("parts", << P("["), P("]") >>)))),
      Obj1("candidates", Arr1(Obj1("content", Obj1("parts", Arr1(<< P("{"), P("}") >>))))) }

\* C5: a transport failure, a body that is not JSON, or a 2xx envelope that
\* lacks a part of candidates[0].content.parts[0].text (absent key or empty
\* list) is reported as an error and ends the call with no result: no retry,
\* no sleep, no exception leaving the call.
C5_FatalNeverEscapes ==
    ( /\ Requests >= 1
      /\ \/ LastStatus = 0
         \/ Is2xx(LastStatus) /\ lastBody \in NonJsonBodies \cup EnvelopesLackingPart ) =>
        /\ Returned
        /\ exc = "none"
        /\ results = JNull
        /\ Len(sleeps) = Requests - 1
        /\ LastNote.kind = "error"

\* C6: HTTP 200 with a well-formed envelope whose text payload is not valid
\* JSON is reported as an error and returns no result at once, with no
\* further request and no sleep after that attempt.
C6_MalformedTextFatal ==
    ( /\ Requests >= 1
      /\ LastStatus = 200
      /\ lastBody \in { Envelope(<< S(text) >>) : text \in MalformedTexts } ) =>
        /\ Returned
        /\ exc = "none"
        /\ results = JNull
        /\ Len(sleeps) = Requests - 1
        /\ Len(notes) = Requests
        /\ LastNote = Error("api_error", "JSONDecodeError")

C6_Witness ==
    /\ pc = "returned"
    /\ statuses = << 500, 200 >>
    /\ lastBody = Envelope(<< S(Txt("Apple")) >>)

\* attempt k was retried: warning k, sleep k of 2^(k-1), and the loop went on
Retried(k) ==
    /\ k <= Len(sleeps)
    /\ sleeps[k] = Pow2(k - 1)
    /\ notes[k] = Warning(Pow2(k - 1), k, retries)
    /\ i >= k
    /\ delay >= Pow2(k)

\* C7 (as stated): every status that is not 2xx and not 403, 1xx and 3xx
\* included, is retried: one warning, a sleep of the current delay, the delay
\* doubled, the next attempt.
C7_EveryNon2xxRetried ==
    \A k \in 1..Requests :
        ( statuses[k] # 0 /\ ~Is2xx(statuses[k]) /\ statuses[k] # 403 ) => Retried(k)

\* C7 (amended): every 4xx/5xx status other than 403 is retried: one
\* warning, a sleep of the current delay, the delay doubled, the next
\* attempt; a 1xx or 3xx status is not retried, the call ends on it like on
\* a 2xx response.
C7_ErrorStatusRetried ==
    /\ delay = Pow2(Len(sleeps))
    /\ i = Len(sleeps)
    /\ \A k \in 1..Requests :
        /\ ( statuses[k] >= 400 /\ statuses[k] < 600 /\ statuses[k] # 403 ) => Retried(k)
        /\ ( statuses[k] # 0 /\ statuses[k] < 400 ) =>
              /\ k = Requests
              /\ Len(sleeps) = k - 1
              /\ pc # "loop"

C7_Witness ==
    /\ pc = "returned"
    /\ statuses = << 400, 500, 304 >>
    /\ sleeps = << 1, 2 >>

\* an object with a string food_item and a numeric calories
SchemaValidEntry(v) ==
    /\ v.t = "obj"
    /\ HasKey(v.members, Txt("food_item"))
    /\ DictGet(v.members, Txt("food_item")).t = "str"
    /\ HasKey(v.members, Txt("calories"))
    /\ DictGet(v.members, Txt("calories")).t = "num"

\* C8: whatever the call returns as a result is a non-empty sequence of
\* schema-valid entries; any other parsed payload makes the call return no
\* result.
C8_ResultsSchemaValid ==
    ( Requests >= 1 /\ Is2xx(LastStatus) /\ results # Unset /\ results # JNull ) =>
        /\ results.t = "arr"
        /\ Len(results.items) > 0
        /\ \A n \in 1..Len(results.items) : SchemaValidEntry(results.items[n])

\* C9: no exception leaves the handler, and a run that ends without a
\* rendered result has shown an error message.
C9_NoCrashAlwaysMessage ==
    /\ exc = "none"
    /\ pc # "crashed"
    /\ ( pc = "done" /\ total = Unset ) => ~NoErrorNote

\* sum of the calories fields, taken from the last entry backwards
RECURSIVE CaloriesOf(_)
CaloriesOf(items) ==
    IF Len(items) = 0 THEN 0
    ELSE LET last == items[Len(items)].members
             at == { m \in 1..Len(last) : last[m].key = Txt("calories") }
         IN  ( IF at = {} THEN 0 ELSE last[CHOOSE m \in at : TRUE].val.n )
             + CaloriesOf(SubSeq(items, 1, Len(items) - 1))

\* C10: the total is the sum of the calories fields of all entries, an entry
\* without the field counting 0; [{A,10},{B}] gives 10, and entries with the
\* same food_item are each counted.
C10_TotalIsSum ==
    total # Unset =>
        /\ pc = "done"
        /\ results.t = "arr"
        /\ total.t = "num"
        /\ total.n = CaloriesOf(results.items)
        /\ lastBody = Envelope(<< S(MissingCalText) >>) => total.n = 10
        /\ lastBody = Envelope(<< S(DuplicateText) >>) => total.n = 20
        /\ lastBody = Envelope(<< S(TwoItemText) >>) => total.n = 200

C10_Witness ==
    /\ pc = "done"
    /\ lastBody = Envelope(<< S(MissingCalText) >>)
    /\ total = JNum(10)

\* C11: when the call ends with no result the caller renders no breakdown
\* and computes no total; a breakdown and a total appear only after the call
\* returned a result.
C11_NoResultNoRender ==
    /\ ( results = JNull \/ results = Unset ) => ( ui = <<>> /\ total = Unset )
    /\ ui # <<>> => ( pc \in { "done", "crashed" } /\ Truthy(results) )
    /\ total # Unset => ui = << "success", "subheader", "table", "header" >>

C11_Witness ==
    /\ pc = "done"
    /\ results = JNull
    /\ statuses = << 500, 403 >>
    /\ ~NoErrorNote
    /\ ui = <<>>
    /\ total = Unset

MaxRetriesReported == \E n \in 1..Len(notes) : notes[n].msg = "max_retries"
CallOver == pc \in { "returned", "done", "crashed" } /\ exc # "OSError"
IsErrorStatus(status) == status >= 400 /\ status < 600 /\ status # 403

\* C12 (as stated): "maximum retries exceeded" is reported if and only if
\* exactly max_attempts requests were made and each ended in a status that is
\* neither 2xx nor 403; the number of requests never exceeds max_attempts.
C12_ExhaustedIffAllNon2xx ==
    /\ Requests <= retries
    /\ CallOver =>
          ( MaxRetriesReported <=>
              /\ Requests = retries
              /\ \A k \in 1..Requests :
                    statuses[k] # 0 /\ ~Is2xx(statuses[k]) /\ statuses[k] # 403 )

\* C12 (amended): "maximum retries exceeded" is reported if and only if
\* exactly max_attempts requests were made and each ended in a 4xx/5xx status
\* other than 403; it is never reported in a call with a success, a 403 or a
\* transport/decode failure, and requests never exceed max_attempts.
C12_ExhaustedIffAllErrorStatus ==
    /\ Requests <= retries
    /\ CallOver =>
          ( MaxRetriesReported <=>
              ( Requests = retries /\ \A k \in 1..Requests : IsErrorStatus(statuses[k]) ) )
    /\ MaxRetriesReported =>
          /\ results = JNull
          /\ exc = "none"
          /\ LastNote = Error("max_retries", "none")
          /\ \A n \in 1..(Len(notes) - 1) : notes[n].kind = "warning"

C12_Witness ==
    /\ pc = "returned"
    /\ MaxRetriesReported
    /\ statuses = << 400, 500, 400, 500, 500 >>

\* where the call stands, in the terms of the state machine of the call
CallState ==
    IF ~( pc = "loop" \/ CallOver ) THEN "Idle"
    ELSE IF pc = "loop" THEN ( IF Len(sleeps) = Requests THEN "Attempting" ELSE "RetryableWait" )
    ELSE IF results = Unset THEN "Raised"
    ELSE IF NoErrorNote THEN "Success"
    ELSE IF LastNote.msg = "forbidden" THEN "FatalAuthError"
    ELSE IF LastNote.msg = "api_error" THEN "FatalTransport"
    ELSE "Exhausted"

\* C13: a call that has stopped is in exactly one of the terminal states
\* Success, FatalAuthError, FatalTransport, Exhausted.
C13_StopsInTerminalState ==
    CallOver => CallState \in { "Success", "FatalAuthError", "FatalTransport", "Exhausted" }

Warnings == { n \in 1..Len(notes) : notes[n].kind = "warning" }
Errors == { n \in 1..Len(notes) : notes[n].kind = "error" }
DecodeFailureBodies ==
    NonJsonBodies \cup EnvelopesLackingPart
        \cup { Envelope(<< S(text) >>) : text \in MalformedTexts }

\* C16: in every call the warnings, the sleeps and the attempts that ended in
\* a retried status are equally many; a call that returns a result emits no
\* error; a call that ends by 403, by a transport or decode failure or by
\* exhaustion emits exactly one error, as its last notification.
C16_NotesMatchOutcome ==
    /\ Cardinality(Warnings) = Len(sleeps)
    /\ Len(sleeps) = Cardinality({ k \in 1..Requests : IsErrorStatus(statuses[k]) })
    /\ ( CallOver /\ Truthy(results) ) => NoErrorNote
    /\ ( /\ pc # "loop"
         /\ Requests >= 1
         /\ \/ LastStatus = 403
            \/ LastStatus = 0
            \/ IsErrorStatus(LastStatus)
            \/ ~RaisesHTTPError(LastStatus) /\ lastBody \in DecodeFailureBodies ) =>
          /\ Errors = { Len(notes) }
          /\ results = JNull

\* C14: calls are independent. Whatever the call before did, a call starts
\* with attempt counter 0 and delay 1, and two successive calls with the same
\* retries argument that see the same attempt outcomes end with the same
\* result, the same sleeps and the same notifications.
C14_CallsIndependent ==
    /\ ( pc = "loop" /\ Requests = 0 ) =>
          ( i = 0 /\ delay = 1 /\ sleeps = <<>> /\ notes = <<>> )
    /\ delay = Pow2(Len(sleeps))
    /\ ( /\ pc \in { "returned", "crashed" }
         /\ prev.pc \in { "returned", "crashed" }
         /\ retries = prev.retries
         /\ statuses = prev.statuses
         /\ lastBody = prev.lastBody ) =>
          /\ results = prev.results
          /\ sleeps = prev.sleeps
          /\ notes = prev.notes
          /\ exc = prev.exc

C14_Witness ==
    /\ calls = 2
    /\ pc = "returned"
    /\ prev.pc = "returned"
    /\ prev.delay = 4
    /\ retries = prev.retries
    /\ statuses = prev.statuses
    /\ lastBody = prev.lastBody
    /\ sleeps = << 1, 2 >>

\* C17: called with retries = 0 the function sends no request, does not
\* sleep, emits no warning, reports "maximum retries exceeded" and returns no
\* result.
C17_ZeroRetries ==
    retries = 0 =>
        /\ Requests = 0
        /\ sleeps = <<>>
        /\ Warnings = {}
        /\ pc \in { "loop", "returned" }
        /\ pc = "loop" => notes = <<>>
        /\ pc = "returned" =>
              /\ notes = << Error("max_retries", "none") >>
              /\ results = JNull
              /\ exc = "none"

C17_Witness ==
    /\ retries = 0
    /\ pc = "returned"
    /\ MaxRetriesReported
    /\ Requests = 0

====
